---- MODULE Spec2Model ----
(***************************************************************************)
(* Model of the static site build pipeline of studio.mongoosejs.io         *)
(* (src/build.js): the build orchestrator, the changelog builder, the docs *)
(* builder, the content collector and the page template engine.            *)
(*                                                                         *)
(* src/build.js holds two variants of the script: the main one (lines      *)
(* 1-405, API mounted at /api/studio, changelog and docs) and the netlify  *)
(* one (lines 407-552, changelog only).  `variant` selects between them.   *)
(***************************************************************************)
EXTENDS Integers, Sequences, FiniteSets, TLC

VARIABLES
  variant,       \* "main" | "netlify": which build script runs
  layoutFile,    \* src/layout.html on disk: "missing" | "empty" | "ok"
  changelogDir,  \* src/changelog: NoDir or Dir(listing in readdirSync order)
  docsDir,       \* src/docs: NoDir or Dir(listing), a tree of entries
  pc,            \* position of the run
  trace,         \* the events of the run so far, in order
  thrown,        \* the error the .then callback threw, or NoError
  exitCode,      \* process exit status: -1 running, 0 normal end, 1 process.exit(1)
  entries,       \* the array built by .map(...).sort(...) in buildChangelog
  writes,        \* fs.writeFileSync calls so far, in order
  tplArgs,       \* arguments of a direct applyTemplate call
  tplOut,        \* the document a direct applyTemplate call returned
  infostring,    \* the language tag of a fenced code block, as characters
  codeText,      \* the text of the code block, as characters
  rendered,      \* what renderer.code gave for the block
  conn,          \* `let conn` of src/api/studio.js
  calls          \* the invocations of handlerWrapper, each with its history

codeVars == <<infostring, codeText, rendered>>
connVars == <<conn, calls>>

vars == <<variant, layoutFile, changelogDir, docsDir, pc, trace, thrown,
          exitCode, entries, writes, tplArgs, tplOut, infostring, codeText,
          rendered, conn, calls>>

\* the code block renderer and the request handler at rest
NotRendered == [threw |-> FALSE, highlighterThrew |-> FALSE, class |-> <<>>, body |-> <<>>]
IdleCode == infostring = <<>> /\ codeText = <<>> /\ rendered = NotRendered
IdleConn == conn = "null" /\ calls = <<>>

(***************************************************************************)
(* Bounds of the model.                                                    *)
(***************************************************************************)
MaxChangelogFiles == 2   \* files in src/changelog in a run of the build
MaxDocsEntries == 2      \* entries in the root directory of src/docs
MaxListing == 3          \* files in src/changelog when the sort is studied

(***************************************************************************)
(* JavaScript values.  Every value that can reach a template slot is a     *)
(* tuple of strings, so that any two of them can be compared.              *)
(***************************************************************************)
Undefined == <<"#undefined">>
Null == <<"#null">>
EmptyStr == <<"">>
Absent == <<"#absent">>        \* an attribute that is not there

Truthy(v) == v \notin {Undefined, Null, EmptyStr}

Path(dir, base, ext) == [dir |-> dir, base |-> base, ext |-> ext]
NoPath == Path("", "", "")

\* a directory on disk: whether it exists, and what readdirSync lists
NoDir == [exists |-> FALSE, listing |-> <<>>]
Dir(listing) == [exists |-> TRUE, listing |-> listing]

\* mutant: the directory is read without asking whether it exists
ExistsNotAsked(dir) == TRUE

\* fs.existsSync(dir)
ExistsSync(dir) == dir.exists
NoError == [type |-> "none", file |-> NoPath]
Err(type, file) == [type |-> type, file |-> file]

\* String.prototype.toLowerCase on the extensions and letters of the model
ToLowerCase(s) ==
  CASE s = "MD" -> "md"
    [] s = "V" -> "v"
    [] OTHER -> s

\* file.endsWith('.md') (case-sensitive)
EndsWithMd(ext) == ext = "md"

(***************************************************************************)
(* Changelog: publishedAt resolution (src/build.js 99-110).                *)
(* A front-matter value is [kind, text, v]: text is the text of a string,  *)
(* v the getTime() of a Date (NaN for an Invalid Date) or the value of a   *)
(* number.                                                                 *)
(***************************************************************************)
NaN == -1

FM(kind, text, v) == [kind |-> kind, text |-> text, v |-> v]
FmAbsent == FM("undefined", "", NaN)
FmString(text) == FM("string", text, NaN)
FmDate(t) == FM("date", "", t)
FmNumber(n) == FM("number", "", n)

\* new Date(text).getTime() for the date strings of the model
DateParse(text) ==
  CASE text = "2024-01-01" -> 1
    [] text = "2024-01-02" -> 2
    [] text = "2024-01-03" -> 3
    [] OTHER -> NaN                           \* Invalid Date

\* JavaScript truthiness of a front-matter value
FmTruthy(d) ==
  CASE d.kind = "undefined" -> FALSE
    [] d.kind = "null" -> FALSE
    [] d.kind = "string" -> d.text # ""
    [] d.kind = "number" -> d.v # 0
    [] d.kind = "boolean" -> d.v = 1
    [] OTHER -> TRUE                          \* a Date object

\* lines 100-106: the value of `publishedAt` before the fallback
DeclaredPublishedAt(d) ==
  IF FmTruthy(d)
    THEN IF d.kind = "string" THEN FmDate(DateParse(d.text)) ELSE d
    ELSE FmAbsent

\* publishedAt.getTime exists only on a Date
HasGetTime(p) == p.kind = "date"

\* lines 107-110: [threw, time]; evaluating publishedAt.getTime() on a value
\* that is no Date throws a TypeError
ResolvePublishedAt(d, mtime) ==
  LET p == DeclaredPublishedAt(d) IN
  IF ~FmTruthy(p) THEN [threw |-> FALSE, time |-> mtime]
  ELSE IF ~HasGetTime(p) THEN [threw |-> TRUE, time |-> NaN]
  ELSE IF p.v = NaN THEN [threw |-> FALSE, time |-> mtime]
  ELSE [threw |-> FALSE, time |-> p.v]

(***************************************************************************)
(* Changelog: slugs and their comparison (src/build.js 127).               *)
(* b.slug.localeCompare(a.slug, 'en', {numeric: true, sensitivity:'base'}) *)
(* compares at primary strength: letter case is ignored, a run of digits   *)
(* counts as the number it writes, punctuation sorts before digits and     *)
(* digits before letters.                                                  *)
(***************************************************************************)
Chars(slug) ==
  CASE slug = "2.0.0" -> <<"2", ".", "0", ".", "0">>
    [] slug = "10.0.0" -> <<"1", "0", ".", "0", ".", "0">>
    [] slug = "1.5.0" -> <<"1", ".", "5", ".", "0">>
    [] slug = "1.0.0" -> <<"1", ".", "0", ".", "0">>
    [] slug = "v1" -> <<"v", "1">>
    [] slug = "V1" -> <<"V", "1">>
    [] slug = "notes" -> <<"n", "o", "t", "e", "s">>
    [] OTHER -> <<>>

DigitValue(c) ==
  CASE c = "0" -> 0 [] c = "1" -> 1 [] c = "2" -> 2 [] c = "3" -> 3
    [] c = "4" -> 4 [] c = "5" -> 5 [] c = "6" -> 6 [] c = "7" -> 7
    [] c = "8" -> 8 [] c = "9" -> 9 [] OTHER -> -1

IsDigit(c) == DigitValue(c) >= 0

\* primary weight of a character that is no digit
CharWeight(c) ==
  LET l == ToLowerCase(c) IN
  CASE l = "." -> 1
    [] l = "-" -> 2
    [] l = "e" -> 100005
    [] l = "n" -> 100014
    [] l = "o" -> 100015
    [] l = "s" -> 100019
    [] l = "t" -> 100020
    [] l = "v" -> 100022
    [] OTHER -> 100099

RECURSIVE DigitRunLen(_)
DigitRunLen(cs) ==
  IF cs = <<>> \/ ~IsDigit(Head(cs)) THEN 0 ELSE 1 + DigitRunLen(Tail(cs))

RECURSIVE NumberOf(_, _)
NumberOf(cs, acc) ==
  IF cs = <<>> THEN acc ELSE NumberOf(Tail(cs), 10 * acc + DigitValue(Head(cs)))

\* the sequence of primary weights of a string under numeric collation
RECURSIVE CollationKey(_)
CollationKey(cs) ==
  IF cs = <<>> THEN <<>>
  ELSE IF IsDigit(Head(cs))
    THEN LET n == DigitRunLen(cs) IN
         <<10 + NumberOf(SubSeq(cs, 1, n), 0)>>
           \o CollationKey(SubSeq(cs, n + 1, Len(cs)))
    ELSE <<CharWeight(Head(cs))>> \o CollationKey(Tail(cs))

RECURSIVE CompareKeys(_, _)
CompareKeys(k1, k2) ==
  IF k1 = <<>> /\ k2 = <<>> THEN 0
  ELSE IF k1 = <<>> THEN -1
  ELSE IF k2 = <<>> THEN 1
  ELSE IF Head(k1) < Head(k2) THEN -1
  ELSE IF Head(k1) > Head(k2) THEN 1
  ELSE CompareKeys(Tail(k1), Tail(k2))

\* mutant: the comparison without { numeric: true }, digit by digit
CollationKeyByDigit(cs) == [i \in 1..Len(cs) |->
  IF IsDigit(cs[i]) THEN 10 + DigitValue(cs[i]) ELSE CharWeight(cs[i])]

LocaleCompareNotNumeric(x, y) ==
  CompareKeys(CollationKeyByDigit(Chars(x)), CollationKeyByDigit(Chars(y)))

\* x.localeCompare(y, 'en', { numeric: true, sensitivity: 'base' })
LocaleCompare(x, y) == CompareKeys(CollationKey(Chars(x)), CollationKey(Chars(y)))

\* slug.startsWith('v') ? slug : `v${slug}`
DisplayVersion(slug) ==
  IF Chars(slug) # <<>> /\ Head(Chars(slug)) = "v" THEN slug ELSE "v" \o slug

(***************************************************************************)
(* Changelog: the entries (src/build.js 84-128 and 452-469).               *)
(* A file of src/changelog is [base, ext, publishedAt, mtime].             *)
(***************************************************************************)
ChangelogFile(base, ext, fm, mtime) ==
  [base |-> base, ext |-> ext, publishedAt |-> fm, mtime |-> mtime]

\* .filter(file => file.endsWith('.md'))
FilterMd(listing) == SelectSeq(listing, LAMBDA f : EndsWithMd(f.ext))

\* the object the .map callback returns (main variant)
MakeEntry(f) ==
  [slug |-> f.base,
   displayVersion |-> DisplayVersion(f.base),
   publishedAt |-> ResolvePublishedAt(f.publishedAt, f.mtime).time]

\* the object the .map callback returns (netlify variant): no publishedAt
MakeEntryNetlify(f) ==
  [slug |-> f.base,
   displayVersion |-> DisplayVersion(f.base),
   publishedAt |-> 0]

\* the .map callback throws on the first file whose resolution throws
MapThrows(files) ==
  \E i \in 1..Len(files) :
    ResolvePublishedAt(files[i].publishedAt, files[i].mtime).threw

\* lines 123-128: the comparator of the main variant
CompareEntries(a, b) ==
  IF b.publishedAt > a.publishedAt THEN 1
  ELSE IF a.publishedAt > b.publishedAt THEN -1
  ELSE LocaleCompare(b.slug, a.slug)

\* line 469: the comparator of the netlify variant
CompareEntriesNetlify(a, b) == LocaleCompare(b.slug, a.slug)

Compare(v, a, b) ==
  IF v = "main" THEN CompareEntries(a, b) ELSE CompareEntriesNetlify(a, b)

\* Array.prototype.sort is stable: an element goes after every element that
\* does not compare greater than it
RECURSIVE InsertPos(_, _, _, _)
InsertPos(v, sorted, e, i) ==
  IF i > Len(sorted) THEN i
  ELSE IF Compare(v, sorted[i], e) > 0 THEN i
  ELSE InsertPos(v, sorted, e, i + 1)

Insert(v, sorted, e) ==
  LET i == InsertPos(v, sorted, e, 1) IN
  SubSeq(sorted, 1, i - 1) \o <<e>> \o SubSeq(sorted, i, Len(sorted))

RECURSIVE SortFrom(_, _, _)
SortFrom(v, acc, rest) ==
  IF rest = <<>> THEN acc ELSE SortFrom(v, Insert(v, acc, Head(rest)), Tail(rest))

SortEntries(v, es) == SortFrom(v, <<>>, es)

MapSeq(Op(_), s) == [i \in 1..Len(s) |-> Op(s[i])]

\* readdirSync(...).filter(...).map(...).sort(...), when .map does not throw
BuildEntries(v, listing) ==
  LET files == FilterMd(listing) IN
  SortEntries(v, IF v = "main" THEN MapSeq(MakeEntry, files)
                 ELSE MapSeq(MakeEntryNetlify, files))

Slugs(es) == [i \in 1..Len(es) |-> es[i].slug]

(***************************************************************************)
(* Page template engine (src/build.js 367-397 and 536-552).                *)
(* A parsed document is a function from the slots it holds to their        *)
(* content: the text of <title>, the text of the heading slot, the inner   *)
(* HTML of the content slot and the content attribute of each meta tag.    *)
(***************************************************************************)
MetaSlots == {"og:image", "twitter:image", "twitter:card", "twitter:title",
              "twitter:description"}
Slots == {"title", "heading", "content"} \cup MetaSlots

\* what the shared layout ships with in each slot
Shipped(slot) == <<"shipped", slot>>

\* cheerio.load(template) of the layout file, and of an empty file
ShippedLayout == [s \in Slots |-> Shipped(s)]
EmptyDocument == [s \in {} |-> Undefined]

\* $(selector).first().text(value) / .html(value): nothing is selected when
\* the document has no such element
SetContent(doc, slot, value) ==
  IF slot \in DOMAIN doc THEN [doc EXCEPT ![slot] = value] ELSE doc

\* mutant: an undefined value takes the attribute away, as null does
SetAttrUndefinedRemoves(doc, slot, value) ==
  IF slot \notin DOMAIN doc THEN doc
  ELSE IF value \in {Undefined, Null} THEN [doc EXCEPT ![slot] = Absent]
  ELSE [doc EXCEPT ![slot] = value]

\* $(selector).attr('content', value): cheerio reads attr(name, undefined) as
\* a getter and changes nothing; attr(name, null) removes the attribute
SetAttr(doc, slot, value) ==
  IF slot \notin DOMAIN doc \/ value = Undefined THEN doc
  ELSE IF value = Null THEN [doc EXCEPT ![slot] = Absent]
  ELSE [doc EXCEPT ![slot] = value]

\* `if (value) { ... }`
IfTruthy(value, doc, changed) == IF Truthy(value) THEN changed ELSE doc

TemplateArgs(pageTitle, heading, content, description, meta) ==
  [pageTitle |-> pageTitle, heading |-> heading, content |-> content,
   description |-> description, meta |-> meta]

Meta(ogImage, twitterImage, twitterCard) ==
  [ogImage |-> ogImage, twitterImage |-> twitterImage, twitterCard |-> twitterCard]

\* `meta = {}`: the default of an omitted meta
NoMeta == Meta(Undefined, Undefined, Undefined)

\* lines 367-397
ApplyTemplate(template, a) ==
  LET d0 == template
      d1 == IfTruthy(a.pageTitle, d0, SetContent(d0, "title", a.pageTitle))
      d2 == IfTruthy(a.heading, d1, SetContent(d1, "heading", a.heading))
      d3 == IfTruthy(a.content, d2, SetContent(d2, "content", a.content))
      d4 == IfTruthy(a.meta.ogImage, d3, SetAttr(d3, "og:image", a.meta.ogImage))
      d5 == IfTruthy(a.meta.twitterCard, d4,
                     SetAttr(d4, "twitter:card", a.meta.twitterCard))
      d6 == SetAttr(d5, "twitter:image", a.meta.twitterImage)
      d7 == SetAttr(d6, "twitter:title", a.pageTitle)
      d8 == SetAttr(d7, "twitter:description", a.description)
  IN d8

\* lines 536-552: the netlify variant takes no description and no meta
ApplyTemplateNetlify(template, a) ==
  LET d0 == template
      d1 == IfTruthy(a.pageTitle, d0, SetContent(d0, "title", a.pageTitle))
      d2 == IfTruthy(a.heading, d1, SetContent(d1, "heading", a.heading))
      d3 == IfTruthy(a.content, d2, SetContent(d2, "content", a.content))
  IN d3

(***************************************************************************)
(* The shared layout (src/build.js 43-50 and 442-448).                     *)
(***************************************************************************)
\* mutant: the builders do not ask for the layout
LayoutNotAsked(file) == TRUE

\* main: layout = existsSync ? readFileSync : null, then `if (!layout)`
LayoutAvailableMain(file) == file = "ok"

\* netlify: only fs.existsSync(layoutPath) is asked
LayoutAvailableNetlify(file) == file # "missing"

LayoutAvailable(v, file) ==
  IF v = "main" THEN LayoutAvailableMain(file) ELSE LayoutAvailableNetlify(file)

LayoutDocument(file) == IF file = "ok" THEN ShippedLayout ELSE EmptyDocument

(***************************************************************************)
(* Files written: [src, path, page].                                       *)
(***************************************************************************)
Write(src, path, page) == [src |-> src, path |-> path, page |-> page]

\* path.join(a, b)
JoinDir(a, b) == IF b = "" THEN a ELSE IF a = "" THEN b ELSE a \o "/" \o b

\* renderIndex(entries): the entries listed, in the order given
RenderIndex(es) == <<"index">> \o Slugs(es)

\* renderEntryPage(entry)
RenderEntryPage(e) == <<"entry", e.slug>>

(***************************************************************************)
(* Changelog builder (src/build.js 69-153 and 435-490).                    *)
(***************************************************************************)
\* the names the forEach callback of lines 130-143 can resolve: its own,
\* buildChangelog's, and the module's
ForEachScope ==
  {"entry", "page", "changelogDir", "outputDir", "entries",
   "execSync", "fs", "path", "cheerio", "marked", "matter", "Prism",
   "loadLanguages", "SUPPORTED_LANGUAGES", "renderer", "opts", "layoutPath",
   "layout", "buildChangelog", "buildDocs", "collectMarkdownFiles",
   "renderDocPage", "highlightCodeBlock", "normalizeLanguage", "renderIndex",
   "renderEntryPage", "extractFirstParagraph", "escapeHtml", "formatDate",
   "applyTemplate", "resolveSocialImage"}

\* reading a name that resolves nowhere throws a ReferenceError
IdentifierThrows(name) == name \notin ForEachScope

\* lines 131-140: the object literal reads entry.* and data.image
EntryPageThrows == IdentifierThrows("entry") \/ IdentifierThrows("data")

ChangelogSrc(e) == Path("changelog", e.slug, "md")
ChangelogOut(slug) == Path("changelog", slug, "html")

\* lines 471-479: one detail page per entry (netlify variant)
EntryWriteNetlify(layoutDoc, e) ==
  Write(ChangelogSrc(e), ChangelogOut(e.slug),
        ApplyTemplateNetlify(layoutDoc,
          TemplateArgs(<<"Mongoose Studio Changelog - ", e.displayVersion>>,
                       <<"Mongoose Studio ", e.displayVersion>>,
                       <<"html", e.slug>>, Undefined, NoMeta)))

\* lines 130-143: one detail page per entry (main variant), once the names
\* of the object literal have resolved
EntryWrite(layoutDoc, e) ==
  Write(ChangelogSrc(e), ChangelogOut(e.slug),
        ApplyTemplate(layoutDoc,
          TemplateArgs(<<"Mongoose Studio Changelog - ", e.displayVersion>>,
                       Undefined, RenderEntryPage(e), Undefined,
                       Meta(Undefined, Undefined, <<"summary_large_image">>))))

\* lines 145-150
IndexWrite(layoutDoc, es) ==
  Write(NoPath, ChangelogOut("index"),
        ApplyTemplate(layoutDoc,
          TemplateArgs(<<"Mongoose Studio Changelog">>, Undefined,
                       RenderIndex(es), Undefined, NoMeta)))

\* lines 481-487
IndexWriteNetlify(layoutDoc, es) ==
  Write(NoPath, ChangelogOut("index"),
        ApplyTemplateNetlify(layoutDoc,
          TemplateArgs(<<"Mongoose Studio Changelog">>, <<"Changelog">>,
                       RenderIndex(es), Undefined, NoMeta)))

\* buildChangelog of the main variant: [entries, writes, thrown]
ChangelogResult(es, ws, err) == [entries |-> es, writes |-> ws, thrown |-> err]

BuildChangelogMain(dir, file) ==
  IF ~ExistsSync(dir) THEN ChangelogResult(<<>>, <<>>, NoError)
  ELSE IF ~LayoutAvailableMain(file) THEN ChangelogResult(<<>>, <<>>, NoError)
  ELSE IF MapThrows(FilterMd(dir.listing))
    THEN ChangelogResult(<<>>, <<>>, Err("TypeError", NoPath))
  ELSE LET es == BuildEntries("main", dir.listing) IN
    IF Len(es) > 0 /\ EntryPageThrows
      THEN ChangelogResult(es, <<>>, Err("ReferenceError", ChangelogSrc(es[1])))
      ELSE ChangelogResult(es,
             [i \in 1..Len(es) |-> EntryWrite(LayoutDocument(file), es[i])]
               \o <<IndexWrite(LayoutDocument(file), es)>>,
             NoError)

BuildChangelogNetlify(dir, file) ==
  IF ~ExistsSync(dir) THEN ChangelogResult(<<>>, <<>>, NoError)
  ELSE IF ~LayoutAvailableNetlify(file) THEN ChangelogResult(<<>>, <<>>, NoError)
  ELSE LET es == BuildEntries("netlify", dir.listing)
           doc == LayoutDocument(file) IN
    ChangelogResult(es,
      [i \in 1..Len(es) |-> EntryWriteNetlify(doc, es[i])]
        \o <<IndexWriteNetlify(doc, es)>>,
      NoError)

(***************************************************************************)
(* Content collector and docs builder (src/build.js 155-225).              *)
(* An entry of a directory is [kind, base, ext, title, children]: a file   *)
(* with the title its front matter declares, a directory with its own      *)
(* listing, or something that is neither (a socket, a dangling link).      *)
(***************************************************************************)
DocFile(base, ext, title) ==
  [kind |-> "file", base |-> base, ext |-> ext, title |-> title, children |-> <<>>]
DocDir(base, children) ==
  [kind |-> "dir", base |-> base, ext |-> "", title |-> Undefined,
   children |-> children]
DocOther(base) ==
  [kind |-> "other", base |-> base, ext |-> "md", title |-> Undefined,
   children |-> <<>>]

\* entry.name.toLowerCase().endsWith('.md')
IsMarkdownName(ext) == ToLowerCase(ext) = "md"

\* lines 209-225: the files collected under `dir`, each with its path
\* relative to the docs root and its title
RECURSIVE CollectMarkdownFiles(_, _)
CollectMarkdownFiles(dir, listing) ==
  IF listing = <<>> THEN <<>>
  ELSE LET e == Head(listing) IN
    (IF e.kind = "dir" THEN CollectMarkdownFiles(JoinDir(dir, e.base), e.children)
     ELSE IF e.kind = "file" /\ IsMarkdownName(e.ext)
       THEN <<[path |-> Path(dir, e.base, e.ext), title |-> e.title]>>
       ELSE <<>>)
    \o CollectMarkdownFiles(dir, Tail(listing))

\* mutant: the output is placed by base name, the directories dropped
DocsOutputPathFlat(rel) ==
  Path("docs", rel.base, IF ToLowerCase(rel.ext) = "md" THEN "html" ELSE rel.ext)

\* lines 199-201: path.join(outputDir, relative).replace(/\.md$/i, '.html')
DocsOutputPath(rel) ==
  Path(JoinDir("docs", rel.dir), rel.base,
       IF ToLowerCase(rel.ext) = "md" THEN "html" ELSE rel.ext)

\* lines 399-405, for a front matter that declares no image
DefaultSocialImage == <<"https://res.cloudinary.com/.../68af798b31f5a1432aaec547_lvw406.png">>

\* lines 179-203: the page of one source file
DocWrite(layoutDoc, f) ==
  Write(f.path, DocsOutputPath(f.path),
        ApplyTemplate(layoutDoc,
          TemplateArgs(<<f.title[1], " - Mongoose Studio Documentation">>,
                       Undefined, <<"doc", f.title[1]>>, EmptyStr,
                       Meta(DefaultSocialImage, DefaultSocialImage,
                            <<"summary_large_image">>))))

\* mutant: the title is not validated
TitleNeverMissing(f) == FALSE

\* line 175: `if (!data.title)`
TitleMissing(f) == ~Truthy(f.title)

\* the index of the first collected file without a title, 0 if there is none
RECURSIVE FirstUntitled(_, _)
FirstUntitled(files, i) ==
  IF i > Len(files) THEN 0
  ELSE IF TitleMissing(files[i]) THEN i
  ELSE FirstUntitled(files, i + 1)

DocsResult(ws, err) == [writes |-> ws, thrown |-> err]

\* lines 155-207
BuildDocsMain(dir, file) ==
  IF ~ExistsSync(dir) THEN DocsResult(<<>>, NoError)
  ELSE IF ~LayoutAvailableMain(file) THEN DocsResult(<<>>, NoError)
  ELSE LET files == CollectMarkdownFiles("", dir.listing)
           k == FirstUntitled(files, 1)
           n == IF k = 0 THEN Len(files) ELSE k - 1
           ws == [i \in 1..n |-> DocWrite(LayoutDocument(file), files[i])]
       IN IF k = 0 THEN DocsResult(ws, NoError)
          ELSE DocsResult(ws, Err("MissingTitle", files[k].path))

(***************************************************************************)
(* Markdown renderer: fenced code blocks (src/build.js 11-28, 248-264,     *)
(* 335-342).  Strings are sequences of characters.                         *)
(***************************************************************************)
\* a fence with no info string hands renderer.code no language
NoTag == <<"#undefined">>

\* String.prototype.toLowerCase, character by character
LowerChar(c) ==
  CASE c = "A" -> "a"
    [] c = "B" -> "b"
    [] c = "C" -> "c"
    [] c = "D" -> "d"
    [] c = "E" -> "e"
    [] c = "F" -> "f"
    [] c = "G" -> "g"
    [] c = "H" -> "h"
    [] c = "I" -> "i"
    [] c = "J" -> "j"
    [] c = "K" -> "k"
    [] c = "L" -> "l"
    [] c = "M" -> "m"
    [] c = "N" -> "n"
    [] c = "O" -> "o"
    [] c = "P" -> "p"
    [] c = "Q" -> "q"
    [] c = "R" -> "r"
    [] c = "S" -> "s"
    [] c = "T" -> "t"
    [] c = "U" -> "u"
    [] c = "V" -> "v"
    [] c = "W" -> "w"
    [] c = "X" -> "x"
    [] c = "Y" -> "y"
    [] c = "Z" -> "z"
    [] OTHER -> c

LowerCase(cs) == [i \in 1..Len(cs) |-> LowerChar(cs[i])]

LanguagePrefix == <<"l", "a", "n", "g", "u", "a", "g", "e", "-">>

\* .replace(/^language-/, '')
StripLanguagePrefix(cs) ==
  IF Len(cs) >= Len(LanguagePrefix) /\ SubSeq(cs, 1, Len(LanguagePrefix)) = LanguagePrefix
    THEN SubSeq(cs, Len(LanguagePrefix) + 1, Len(cs))
    ELSE cs

\* lines 11-16: the object's own keys
OwnLanguage(key) ==
  CASE key = <<"j", "s">> -> <<"javascript">>
    [] key = <<"j", "a", "v", "a", "s", "c", "r", "i", "p", "t">> -> <<"javascript">>
    [] key = <<"t", "s">> -> <<"typescript">>
    [] key = <<"t", "y", "p", "e", "s", "c", "r", "i", "p", "t">> -> <<"typescript">>
    [] OTHER -> Undefined

\* SUPPORTED_LANGUAGES is an object literal: a key it does not own is looked
\* up on Object.prototype, which holds `constructor` (the function Object)
\* and `__proto__` (Object.prototype itself) among its lower-case names;
\* the value is written here as its String(...)
InheritedProperty(key) ==
  CASE key = <<"c", "o", "n", "s", "t", "r", "u", "c", "t", "o", "r">> -> <<"function Object() { [native code] }">>
    [] key = <<"_", "_", "p", "r", "o", "t", "o", "_", "_">> -> <<"[object Object]">>
    [] OTHER -> Undefined

\* SUPPORTED_LANGUAGES[lower]
SupportedLanguages(key) ==
  IF OwnLanguage(key) # Undefined THEN OwnLanguage(key) ELSE InheritedProperty(key)

\* lines 257-264
NormalizeLanguage(language) ==
  IF language = NoTag \/ language = <<>> THEN Null
  ELSE LET lower == StripLanguagePrefix(LowerCase(language))
           found == SupportedLanguages(lower)
       IN IF Truthy(found) THEN found ELSE Null

\* one pass of value.replace(/c/g, entity)
ReplaceAll(cs, c, entity) == [i \in 1..Len(cs) |-> IF cs[i] = c THEN entity ELSE cs[i]]

\* lines 335-342
EscapeHtml(value) ==
  ReplaceAll(ReplaceAll(ReplaceAll(ReplaceAll(ReplaceAll(value,
    "&", "&amp;"), "<", "&lt;"), ">", "&gt;"), "\"", "&quot;"), "'", "&#39;")

\* line 18: loadLanguages(['javascript', 'typescript']); Prism.languages[language]
HasGrammar(language) == language \in {<<"javascript">>, <<"typescript">>}

\* Prism.highlight(code, grammar, language): token markup around the text,
\* in which Prism encodes & and <
PrismHighlight(cs, language) ==
  <<"<span class=\"token\">">>
    \o ReplaceAll(ReplaceAll(cs, "&", "&amp;"), "<", "&lt;")
    \o <<"</span>">>

\* lines 248-255: [threw, body]; nothing catches what Prism.highlight throws
HighlightCodeBlock(cs, language, prismThrows) ==
  IF ~Truthy(language) THEN [threw |-> FALSE, body |-> EscapeHtml(cs)]
  ELSE IF HasGrammar(language)
    THEN IF prismThrows THEN [threw |-> TRUE, body |-> <<>>]
         ELSE [threw |-> FALSE, body |-> PrismHighlight(cs, language)]
    ELSE [threw |-> FALSE, body |-> EscapeHtml(cs)]

\* whether renderer.code reaches Prism.highlight for this tag
CallsPrism(tag) ==
  Truthy(NormalizeLanguage(tag)) /\ HasGrammar(NormalizeLanguage(tag))

\* lines 22-28: the class of the <pre> and <code> elements and what they hold
RendererCode(cs, tag, prismThrows) ==
  LET language == NormalizeLanguage(tag)
      highlighted == HighlightCodeBlock(cs, language, prismThrows)
  IN [threw |-> highlighted.threw,
      highlighterThrew |-> prismThrows /\ CallsPrism(tag),
      class |-> IF highlighted.threw THEN <<>>
                ELSE IF Truthy(language) THEN <<"language-", language[1]>> ELSE <<>>,
      body |-> highlighted.body]

SupportedTags ==
  {<<"j", "s">>,
   <<"J", "S">>,
   <<"j", "a", "v", "a", "s", "c", "r", "i", "p", "t">>,
   <<"J", "a", "v", "a", "S", "c", "r", "i", "p", "t">>,
   <<"t", "s">>,
   <<"T", "S">>,
   <<"t", "y", "p", "e", "s", "c", "r", "i", "p", "t">>,
   <<"l", "a", "n", "g", "u", "a", "g", "e", "-", "j", "s">>,
   <<"L", "A", "N", "G", "U", "A", "G", "E", "-", "T", "S">>,
   <<"L", "a", "n", "g", "u", "a", "g", "e", "-", "T", "y", "p", "e", "S", "c", "r", "i", "p", "t">>}

OtherTags ==
  {NoTag, <<>>,
   <<"p", "y", "t", "h", "o", "n">>,
   <<"j", "s", "x">>,
   <<"t", "o", "s", "t", "r", "i", "n", "g">>,
   <<"t", "o", "S", "t", "r", "i", "n", "g">>,
   <<"l", "a", "n", "g", "u", "a", "g", "e", "-", "l", "a", "n", "g", "u", "a", "g", "e", "-", "j", "s">>,
   <<"c", "o", "n", "s", "t", "r", "u", "c", "t", "o", "r">>,
   <<"l", "a", "n", "g", "u", "a", "g", "e", "-", "c", "o", "n", "s", "t", "r", "u", "c", "t", "o", "r">>,
   <<"_", "_", "p", "r", "o", "t", "o", "_", "_">>}

CodeTexts ==
  {<<"x">>,
   <<"a", "<", "b">>,
   <<"a", "&", "b">>,
   <<"\"", "q", "\"", ">", "'">>}

(***************************************************************************)
(* Build orchestrator (src/build.js 52-67 and 420-433).                    *)
(***************************************************************************)
\* the frontend build of @mongoosejs/studio fulfils: .then runs
FrontendFulfil ==
  /\ pc = "frontend"
  /\ UNCHANGED <<codeVars, connVars>>
  /\ trace' = Append(trace, "frontend fulfilled")
  /\ pc' = "copy"
  /\ UNCHANGED <<variant, layoutFile, changelogDir, docsDir, thrown,
                 exitCode, entries, writes, tplArgs, tplOut>>

\* the frontend build rejects: .then is skipped, .catch runs
FrontendReject ==
  /\ pc = "frontend"
  /\ UNCHANGED <<codeVars, connVars>>
  /\ trace' = Append(trace, "frontend rejected")
  /\ pc' = "catch"
  /\ thrown' = Err("FrontendRejected", NoPath)
  /\ UNCHANGED <<variant, layoutFile, changelogDir, docsDir,
                 exitCode, entries, writes, tplArgs, tplOut>>

\* execSync(mkdir -p ...; cp -r ...) returns
CopyAssets ==
  /\ pc = "copy"
  /\ UNCHANGED <<codeVars, connVars>>
  /\ trace' = trace \o <<"copy start", "copy done">>
  /\ pc' = "changelog"
  /\ UNCHANGED <<variant, layoutFile, changelogDir, docsDir, thrown,
                 exitCode, entries, writes, tplArgs, tplOut>>

\* execSync throws (the shell command fails)
CopyAssetsFail ==
  /\ pc = "copy"
  /\ UNCHANGED <<codeVars, connVars>>
  /\ trace' = trace \o <<"copy start", "copy threw">>
  /\ thrown' = Err("ExecError", NoPath)
  /\ pc' = "catch"
  /\ UNCHANGED <<variant, layoutFile, changelogDir, docsDir,
                 exitCode, entries, writes, tplArgs, tplOut>>

\* after buildChangelog returns: buildDocs() in the main variant, the end of
\* the .then callback in the netlify variant
AfterChangelog(v) == IF v = "main" THEN "docs" ELSE "done"

\* mutant: the error of a step is swallowed and the callback goes on
StepAfterSwallowed(err, next) == next

\* a throw inside the .then callback skips the rest of it and runs .catch
StepAfter(err, next) == IF err # NoError THEN "catch" ELSE next

\* the process ends with status 0 when the .then callback has returned
ExitAfter(position, code) == IF position = "done" THEN 0 ELSE code

Outcome(name, err) ==
  <<name \o " start", name \o (IF err # NoError THEN " threw" ELSE " returned")>>

BuildChangelog ==
  /\ pc = "changelog"
  /\ UNCHANGED <<codeVars, connVars>>
  /\ LET r == IF variant = "main" THEN BuildChangelogMain(changelogDir, layoutFile)
              ELSE BuildChangelogNetlify(changelogDir, layoutFile) IN
     /\ trace' = trace \o Outcome("buildChangelog", r.thrown)
     /\ entries' = r.entries
     /\ writes' = writes \o r.writes
     /\ thrown' = r.thrown
     /\ pc' = StepAfter(r.thrown, AfterChangelog(variant))
     /\ exitCode' = ExitAfter(StepAfter(r.thrown, AfterChangelog(variant)), exitCode)
  /\ UNCHANGED <<variant, layoutFile, changelogDir, docsDir, tplArgs, tplOut>>

BuildDocs ==
  /\ pc = "docs"
  /\ UNCHANGED <<codeVars, connVars>>
  /\ LET r == BuildDocsMain(docsDir, layoutFile) IN
     /\ trace' = trace \o Outcome("buildDocs", r.thrown)
     /\ writes' = writes \o r.writes
     /\ thrown' = r.thrown
     /\ pc' = StepAfter(r.thrown, "done")
     /\ exitCode' = ExitAfter(StepAfter(r.thrown, "done"), exitCode)
  /\ UNCHANGED <<variant, layoutFile, changelogDir, docsDir, entries,
                 tplArgs, tplOut>>

\* mutant: the handler logs the error and does not call process.exit(1)
CatchHandlerLogsOnly ==
  /\ pc = "catch"
  /\ UNCHANGED <<codeVars, connVars>>
  /\ exitCode' = 0
  /\ pc' = "exited"
  /\ UNCHANGED <<variant, layoutFile, changelogDir, docsDir, trace, thrown,
                 entries, writes, tplArgs, tplOut>>

\* .catch(err => { console.error(...); process.exit(1); })
CatchHandler ==
  /\ pc = "catch"
  /\ UNCHANGED <<codeVars, connVars>>
  /\ exitCode' = 1
  /\ pc' = "exited"
  /\ UNCHANGED <<variant, layoutFile, changelogDir, docsDir, trace, thrown,
                 entries, writes, tplArgs, tplOut>>

(***************************************************************************)
(* The inputs of a run: the files on disk when the script starts.          *)
(***************************************************************************)
\* the sequences of at most n distinct elements of S
SeqsNoRep(S, n) ==
  UNION {{s \in [1..k -> S] : \A i, j \in 1..k : i # j => s[i] # s[j]} : k \in 0..n}

ChangelogPool ==
  {ChangelogFile("1.0.0", "md", FmAbsent, 1),
   ChangelogFile("2.0.0", "md", FmString("2024-01-02"), 1),
   ChangelogFile("1.5.0", "md", FmNumber(2024), 1),
   ChangelogFile("notes", "txt", FmAbsent, 1)}

DocsPool ==
  {DocFile("a", "md", <<"A">>),
   DocFile("a", "MD", <<"B">>),
   DocFile("b", "md", Undefined),
   DocFile("c", "md", EmptyStr),
   DocFile("readme", "txt", Undefined),
   DocDir("guide", <<DocFile("a", "md", <<"A">>), DocFile("b", "md", <<"B">>)>>),
   DocOther("sock")}

IdleArgs == TemplateArgs(Undefined, Undefined, Undefined, Undefined, NoMeta)

Init ==
  /\ variant \in {"main", "netlify"}
  /\ layoutFile \in {"missing", "empty", "ok"}
  /\ changelogDir \in {NoDir} \cup {Dir(l) : l \in SeqsNoRep(ChangelogPool, MaxChangelogFiles)}
  /\ docsDir \in {NoDir} \cup {Dir(l) : l \in SeqsNoRep(DocsPool, MaxDocsEntries)}
  /\ pc = "frontend"
  /\ trace = <<>>
  /\ thrown = NoError
  /\ exitCode = -1
  /\ entries = <<>>
  /\ writes = <<>>
  /\ tplArgs = IdleArgs
  /\ tplOut = EmptyDocument
  /\ IdleCode
  /\ IdleConn

Next ==
  \/ FrontendFulfil
  \/ FrontendReject
  \/ CopyAssets
  \/ CopyAssetsFail
  \/ BuildChangelog
  \/ BuildDocs
  \/ CatchHandler

Spec == Init /\ [][Next]_vars

(***************************************************************************)
(* Properties of a run of the build.                                       *)
(***************************************************************************)
Has(ev) == \E i \in 1..Len(trace) : trace[i] = ev
Ended == pc \in {"done", "exited"}

\* the event right before the i-th one ("" before the first)
Before(i) == IF i > 1 THEN trace[i - 1] ELSE ""

ChangelogWrites == SelectSeq(writes, LAMBDA w : w.path.dir = "changelog")
DocsWrites == SelectSeq(writes, LAMBDA w : w.path.dir # "changelog")
PathsOf(ws) == {ws[i].path : i \in 1..Len(ws)}

\* C1: the steps of a run happen in the order frontend build, asset copy,
\* buildChangelog, buildDocs: the copy starts right after the frontend build
\* fulfilled, buildChangelog right after the copy completed, buildDocs right
\* after buildChangelog returned, and no later step begins in a run whose
\* frontend build has not fulfilled.
T_C1 ==
  /\ \A i \in 1..Len(trace) :
       /\ trace[i] = "copy start" => Before(i) = "frontend fulfilled"
       /\ trace[i] = "buildChangelog start" => Before(i) = "copy done"
       /\ trace[i] = "buildDocs start" => Before(i) = "buildChangelog returned"
       /\ trace[i] = "frontend fulfilled" => i = 1
  /\ (Has("copy start") \/ Has("buildChangelog start") \/ Has("buildDocs start"))
       => Has("frontend fulfilled")
  /\ pc \in {"copy", "changelog", "docs", "done"} => Has("frontend fulfilled")

W_C1 == pc = "done" /\ Has("buildDocs start") /\ Len(writes) > 0

\* C2: when the frontend build rejects, the only thing that follows is the
\* .catch handler, which is ready to run and ends the process with status 1:
\* no asset copy, no buildChangelog, no buildDocs, no file written.
T_C2 ==
  Has("frontend rejected") =>
    /\ trace = <<"frontend rejected">>
    /\ writes = <<>>
    /\ pc \in {"catch", "exited"}
    /\ pc = "catch" => ENABLED CatchHandler
    /\ pc = "exited" => exitCode = 1
    /\ exitCode # 0

W_C2 == Has("frontend rejected") /\ pc = "exited" /\ exitCode = 1

\* C3 (as claimed): with the changelog directory and the layout present and N
\* Markdown entries in the directory, buildChangelog returns without error
\* having written N+1 files: <slug>.html for each entry and an index.html
\* that lists the N entries in sorted order.
CE_C3 ==
  (Has("buildChangelog start") /\ changelogDir.exists /\ layoutFile = "ok")
  => LET files == FilterMd(changelogDir.listing) IN
     /\ Has("buildChangelog returned")
     /\ Len(ChangelogWrites) = Len(files) + 1
     /\ PathsOf(ChangelogWrites) =
          {ChangelogOut(files[i].base) : i \in 1..Len(files)}
            \cup {ChangelogOut("index")}

\* C4 (as claimed): when buildDocs runs over a tree holding a file without a
\* title, it throws an error naming that file, the process ends with status
\* 1 and nothing is written from that file.
UntitledDocs ==
  LET files == CollectMarkdownFiles("", docsDir.listing) IN
  {files[i].path : i \in {j \in 1..Len(files) : files[j].title = Undefined}}

NothingWrittenFrom(src) == \A i \in 1..Len(writes) : writes[i].src # src

FirstUntitledDoc ==
  LET files == CollectMarkdownFiles("", docsDir.listing) IN
  files[CHOOSE k \in 1..Len(files) :
          /\ ~Truthy(files[k].title)
          /\ \A j \in 1..(k - 1) : Truthy(files[j].title)].path

HasUntitledDoc ==
  LET files == CollectMarkdownFiles("", docsDir.listing) IN
  \E k \in 1..Len(files) : ~Truthy(files[k].title)

RECURSIVE DocSources(_, _)
DocSources(dir, listing) ==
  UNION {IF listing[i].kind = "dir"
           THEN DocSources(IF dir = "" THEN listing[i].base
                           ELSE dir \o "/" \o listing[i].base,
                           listing[i].children)
         ELSE IF listing[i].kind = "file" /\ listing[i].ext \in {"md", "MD"}
           THEN {[path |-> Path(dir, listing[i].base, listing[i].ext),
                  title |-> listing[i].title]}
           ELSE {} : i \in 1..Len(listing)}

\* the same relative path under the docs output root, .md replaced by .html
Mirrored(src) ==
  Path(IF src.dir = "" THEN "docs" ELSE "docs/" \o src.dir, src.base, "html")

DocsBuilt ==
  /\ variant = "main" /\ layoutFile = "ok" /\ docsDir.exists
  /\ Has("buildDocs start")

CaseTwins(srcs) ==
  \E f, g \in srcs : f # g /\ f.path.dir = g.path.dir /\ f.path.base = g.path.base

LayoutMissing == layoutFile = "missing"

T_C8 ==
  /\ (~changelogDir.exists /\ Has("buildChangelog start"))
       => /\ Has("buildChangelog returned")
          /\ ChangelogWrites = <<>>
          /\ variant = "main" => pc = "docs" \/ Has("buildDocs start")
  /\ (~docsDir.exists /\ Has("buildDocs start"))
       => Has("buildDocs returned") /\ DocsWrites = <<>> /\ exitCode = 0
  /\ LayoutMissing
       => /\ writes = <<>>
          /\ ~Has("buildChangelog threw") /\ ~Has("buildDocs threw")
          /\ (Has("copy done") /\ Ended) => pc = "done" /\ exitCode = 0
          /\ (Has("copy done") /\ variant = "main" /\ Ended) => Has("buildDocs returned")
  /\ (~changelogDir.exists /\ ~docsDir.exists /\ Has("copy done") /\ Ended)
       => pc = "done" /\ exitCode = 0 /\ writes = <<>>
  /\ (~changelogDir.exists /\ DocsBuilt /\ ~HasUntitledDoc)
       => /\ pc = "done" /\ exitCode = 0
          /\ PathsOf(DocsWrites) = {Mirrored(f.path) : f \in DocSources("", docsDir.listing)}

W_C8 ==
  /\ ~changelogDir.exists /\ DocsBuilt /\ pc = "done"
  /\ Len(DocsWrites) > 1

\* C9 (as claimed): after a successful build with the layout available, an
\* empty or absent changelog directory has given a changelog index.html that
\* lists zero entries.
IndexPages ==
  {ChangelogWrites[i].page : i \in {j \in 1..Len(ChangelogWrites) :
                                     ChangelogWrites[j].path = ChangelogOut("index")}}

NoEntries == FilterMd(changelogDir.listing) = <<>>

CE_C9 ==
  (pc = "done" /\ layoutFile = "ok" /\ NoEntries)
  => \E page \in IndexPages : page["content"] = <<"index">>

\* C9 (amended): after a successful build with the layout available, a
\* changelog directory that exists and holds no Markdown entry has given
\* exactly one changelog file, an index.html listing zero entries; an absent
\* changelog directory has given no changelog file at all.
T_C9 ==
  (pc = "done" /\ layoutFile = "ok" /\ NoEntries)
  => /\ changelogDir.exists
       => /\ Len(ChangelogWrites) = 1
          /\ \E page \in IndexPages :
               /\ page["content"] = <<"index">>
               /\ page["title"] = <<"Mongoose Studio Changelog">>
     /\ ~changelogDir.exists => ChangelogWrites = <<>>

W_C9 ==
  /\ pc = "done" /\ layoutFile = "ok" /\ changelogDir.exists
  /\ Len(changelogDir.listing) > 0 /\ NoEntries /\ IndexPages # {}

(***************************************************************************)
(* The changelog entries on their own: the directory listing is drawn from *)
(* files whose slugs and dates collide in every way, and one step applies  *)
(* readdirSync(...).filter(...).map(...).sort(...) of buildChangelog.      *)
(***************************************************************************)
SortSlugs == {"2.0.0", "10.0.0", "1.5.0", "v1", "V1"}

\* [publishedAt of the front matter, mtime of the file]
SortMetas ==
  {<<FmAbsent, 1>>,
   <<FmString("2024-01-02"), 1>>,      \* a date string
   <<FmString("soon"), 2>>,            \* an unparseable string
   <<FmDate(1), 2>>,                   \* a native date (YAML timestamp)
   <<FmNumber(2024), 1>>}              \* another scalar (YAML integer)

\* the netlify variant reads no front matter and no mtime
MetasOf(v) == IF v = "main" THEN SortMetas ELSE {<<FmAbsent, 1>>}

\* the listing of the files called names[i], each with the date metas[i]
SortListing(names, metas) ==
  [i \in 1..Len(names) |-> ChangelogFile(names[i], "md", metas[i][1], metas[i][2])]

InitChangelog ==
  /\ variant \in {"main", "netlify"}
  /\ layoutFile = "ok"
  /\ \E names \in SeqsNoRep(SortSlugs, MaxListing) :
       \E metas \in [1..Len(names) -> MetasOf(variant)] :
         changelogDir = Dir(SortListing(names, metas))
  /\ docsDir = NoDir
  /\ pc = "sort"
  /\ trace = <<>>
  /\ thrown = NoError
  /\ exitCode = -1
  /\ entries = <<>>
  /\ writes = <<>>
  /\ tplArgs = IdleArgs
  /\ tplOut = EmptyDocument
  /\ IdleCode
  /\ IdleConn

\* lines 84-128 (452-469): the entries of the listing, or the error .map threw
MapAndSort ==
  /\ pc = "sort"
  /\ UNCHANGED <<codeVars, connVars>>
  /\ LET threw == variant = "main" /\ MapThrows(FilterMd(changelogDir.listing)) IN
     /\ thrown' = IF threw THEN Err("TypeError", NoPath) ELSE NoError
     /\ entries' = IF threw THEN <<>> ELSE BuildEntries(variant, changelogDir.listing)
  /\ pc' = "sorted"
  /\ UNCHANGED <<variant, layoutFile, changelogDir, docsDir, trace, exitCode,
                 writes, tplArgs, tplOut>>

NextChangelog == MapAndSort

SpecChangelog == InitChangelog /\ [][NextChangelog]_vars

\* the file of the listing an entry was made from
FileOf(slug) ==
  LET l == changelogDir.listing IN l[CHOOSE i \in 1..Len(l) : l[i].base = slug]

\* C5 (as claimed): resolution never throws, and it gives every entry a valid
\* publishedAt: the declared value when that is a date string or a date that
\* parses to a valid date, the file's modification time in every other case.
DeclaredTime(fm) ==
  IF fm.kind = "string" /\ fm.text \in {"2024-01-01", "2024-01-02", "2024-01-03"}
    THEN CHOOSE t \in 1..3 : fm.text = (<<"2024-01-01", "2024-01-02", "2024-01-03">>)[t]
  ELSE IF fm.kind = "date" /\ fm.v >= 0 THEN fm.v
  ELSE NaN

CE_C5 ==
  (pc = "sorted" /\ variant = "main")
  => /\ thrown = NoError
     /\ Len(entries) = Len(changelogDir.listing)
     /\ \A i \in 1..Len(entries) :
          LET f == FileOf(entries[i].slug) IN
          /\ entries[i].publishedAt # NaN
          /\ entries[i].publishedAt =
               IF DeclaredTime(f.publishedAt) # NaN
                 THEN DeclaredTime(f.publishedAt) ELSE f.mtime

\* the entries .map and .sort give for the files of the listing taken in
\* another order
Reordered(p) ==
  LET l == changelogDir.listing IN
  BuildEntries(variant, [i \in 1..Len(l) |-> l[p[i]]])

Sorted == pc = "sorted" /\ thrown = NoError

PositionIn(listing, slug) == CHOOSE i \in 1..Len(listing) : listing[i].base = slug

\* where a slug stands among the slugs of the model in numeric-aware,
\* case-insensitive descending order: letters come after digits, 10 after 2
DescendingRank(slug) ==
  CASE slug \in {"v1", "V1"} -> 1
    [] slug = "10.0.0" -> 2
    [] slug = "2.0.0" -> 3
    [] slug = "1.5.0" -> 4

\* descending by publishedAt, ties by descending slug
InOrder(es) ==
  \A i, j \in 1..Len(es) :
    i < j =>
      /\ es[i].publishedAt >= es[j].publishedAt
      /\ es[i].publishedAt = es[j].publishedAt
           => DescendingRank(es[i].slug) <= DescendingRank(es[j].slug)

SameFiles(es) ==
  /\ Len(es) = Len(changelogDir.listing)
  /\ {es[i].slug : i \in 1..Len(es)}
       = {changelogDir.listing[i].base : i \in 1..Len(es)}

\* every order of the listing gives the entries in the same order
AnyListingOrder ==
  \A p \in Permutations(1..Len(changelogDir.listing)) :
    Slugs(Reordered(p)) = Slugs(entries)

\* C6 (as claimed): the entries are sorted descending by publishedAt, ties by
\* numeric-aware descending slug, and the order does not depend on the order
\* of the directory listing.
CE_C6 == Sorted => SameFiles(entries) /\ InOrder(entries) /\ AnyListingOrder

\* C6 (amended): the entries are the files of the listing sorted descending
\* by publishedAt, ties by numeric-aware, case-insensitive descending slug
\* (2.0.0, 10.0.0, 1.5.0 with one timestamp come out 10.0.0, 2.0.0, 1.5.0);
\* the order does not depend on the order of the directory listing when no
\* two entries with one timestamp have slugs that differ only in letter
\* case, and two such entries stay in the order the listing gave them.
CaseTie(es) ==
  \E i, j \in 1..Len(es) :
    i # j /\ es[i].publishedAt = es[j].publishedAt
      /\ DescendingRank(es[i].slug) = DescendingRank(es[j].slug)

T_C6 ==
  Sorted =>
    /\ SameFiles(entries)
    /\ InOrder(entries)
    /\ \A i, j \in 1..Len(entries) :
         (i < j /\ entries[i].publishedAt = entries[j].publishedAt
            /\ DescendingRank(entries[i].slug) = DescendingRank(entries[j].slug))
           => PositionIn(changelogDir.listing, entries[i].slug)
                < PositionIn(changelogDir.listing, entries[j].slug)
    /\ ~CaseTie(entries) => AnyListingOrder

\* slugs 2.0.0, 10.0.0 and 1.5.0 with one timestamp, listed in that order
W_C6 ==
  /\ Sorted /\ variant = "main"
  /\ [i \in 1..Len(changelogDir.listing) |-> changelogDir.listing[i].base]
       = <<"2.0.0", "10.0.0", "1.5.0">>
  /\ \A i \in 1..Len(entries) : entries[i].publishedAt = 2
  /\ Slugs(entries) = <<"10.0.0", "2.0.0", "1.5.0">>

(***************************************************************************)
(* The template engine on its own: the arguments are drawn from every      *)
(* combination of omitted and supplied values, and one step applies        *)
(* applyTemplate to the shared layout.                                     *)
(***************************************************************************)
TitleValues == {Undefined, EmptyStr, <<"Page">>}
HeadingValues == {Undefined, EmptyStr, <<"Heading">>}
ContentValues == {Undefined, EmptyStr, <<"<p>X</p>">>}
DescriptionValues == {Undefined, Null, EmptyStr, <<"About">>}
ImageValues == {Undefined, <<"https://example.com/i.png">>}
CardValues == {Undefined, <<"summary_large_image">>}

InitTemplate ==
  /\ variant \in {"main", "netlify"}
  /\ layoutFile = "ok"
  /\ changelogDir = NoDir
  /\ docsDir = NoDir
  /\ pc = "template"
  /\ trace = <<>>
  /\ thrown = NoError
  /\ exitCode = -1
  /\ entries = <<>>
  /\ writes = <<>>
  /\ \E t \in TitleValues, h \in HeadingValues, c \in ContentValues,
        d \in DescriptionValues, og \in ImageValues, tw \in ImageValues,
        card \in CardValues :
       tplArgs = TemplateArgs(t, h, c, d, Meta(og, tw, card))
  /\ tplOut = EmptyDocument
  /\ IdleCode
  /\ IdleConn

\* page = applyTemplate(layout, args)
ApplyTemplateCall ==
  /\ pc = "template"
  /\ UNCHANGED <<codeVars, connVars>>
  /\ tplOut' = IF variant = "main"
                 THEN ApplyTemplate(LayoutDocument(layoutFile), tplArgs)
                 ELSE ApplyTemplateNetlify(LayoutDocument(layoutFile), tplArgs)
  /\ pc' = "applied"
  /\ UNCHANGED <<variant, layoutFile, changelogDir, docsDir, trace, thrown,
                 exitCode, entries, writes, tplArgs>>

NextTemplate == ApplyTemplateCall

SpecTemplate == InitTemplate /\ [][NextTemplate]_vars

\* the argument that feeds a slot
Supplied(slot) ==
  CASE slot = "title" -> tplArgs.pageTitle
    [] slot = "heading" -> tplArgs.heading
    [] slot = "content" -> tplArgs.content
    [] slot = "og:image" -> tplArgs.meta.ogImage
    [] slot = "twitter:image" -> tplArgs.meta.twitterImage
    [] slot = "twitter:card" -> tplArgs.meta.twitterCard
    [] slot = "twitter:title" -> tplArgs.pageTitle
    [] slot = "twitter:description" -> tplArgs.description

\* C10: applyTemplate leaves every slot whose value was omitted with what the
\* template shipped with, whatever the other arguments are; the document
\* keeps all its slots; content <p>X</p> with no heading leaves the heading
\* slot as shipped and makes the content slot exactly <p>X</p>.
T_C10 ==
  pc = "applied" =>
    /\ DOMAIN tplOut = Slots
    /\ \A slot \in Slots : Supplied(slot) = Undefined => tplOut[slot] = Shipped(slot)
    /\ (tplArgs.content = <<"<p>X</p>">> /\ tplArgs.heading = Undefined)
         => tplOut["heading"] = Shipped("heading") /\ tplOut["content"] = <<"<p>X</p>">>

W_C10 ==
  /\ pc = "applied" /\ variant = "main"
  /\ tplArgs.content = <<"<p>X</p>">> /\ tplArgs.heading = Undefined
  /\ tplArgs.pageTitle = <<"Page">> /\ tplArgs.description = Undefined
  /\ tplArgs.meta = NoMeta
  /\ tplOut["content"] = <<"<p>X</p>">> /\ tplOut["title"] = <<"Page">>
  /\ tplOut["twitter:description"] = Shipped("twitter:description")

(***************************************************************************)
(* The code block renderer on its own: a fenced block with any language    *)
(* tag is rendered, and Prism.highlight returns or throws.                 *)
(***************************************************************************)
InitCode ==
  /\ variant = "main"
  /\ layoutFile = "ok"
  /\ changelogDir = NoDir
  /\ docsDir = NoDir
  /\ pc = "code"
  /\ trace = <<>>
  /\ thrown = NoError
  /\ exitCode = -1
  /\ entries = <<>>
  /\ writes = <<>>
  /\ tplArgs = IdleArgs
  /\ tplOut = EmptyDocument
  /\ infostring \in SupportedTags \cup OtherTags
  /\ codeText \in CodeTexts
  /\ rendered = NotRendered
  /\ IdleConn

\* renderer.code(code, infostring) returns
RenderCode ==
  /\ pc = "code"
  /\ rendered' = RendererCode(codeText, infostring, FALSE)
  /\ pc' = "rendered"
  /\ UNCHANGED <<variant, layoutFile, changelogDir, docsDir, trace, thrown,
                 exitCode, entries, writes, tplArgs, tplOut, infostring,
                 codeText, connVars>>

\* renderer.code(code, infostring) with Prism.highlight throwing
RenderCodePrismThrows ==
  /\ pc = "code"
  /\ CallsPrism(infostring)
  /\ rendered' = RendererCode(codeText, infostring, TRUE)
  /\ pc' = "rendered"
  /\ UNCHANGED <<variant, layoutFile, changelogDir, docsDir, trace, thrown,
                 exitCode, entries, writes, tplArgs, tplOut, infostring,
                 codeText, connVars>>

NextCode == RenderCode \/ RenderCodePrismThrows

SpecCode == InitCode /\ [][NextCode]_vars

\* the escaped plain text of the block, entity by entity
PlainText ==
  [i \in 1..Len(codeText) |->
    CASE codeText[i] = "&" -> "&amp;"
      [] codeText[i] = "<" -> "&lt;"
      [] codeText[i] = ">" -> "&gt;"
      [] codeText[i] = "\"" -> "&quot;"
      [] codeText[i] = "'" -> "&#39;"
      [] OTHER -> codeText[i]]

\* C11 (as claimed): when Prism.highlight throws, renderer.code does not
\* throw: it returns the block as escaped plain text.
CE_C11 ==
  (pc = "rendered" /\ rendered.highlighterThrew)
  => ~rendered.threw /\ rendered.body = PlainText

\* the canonical language of a supported tag
Canonical(tag) ==
  IF tag \in {<<"j", "s">>, <<"J", "S">>, <<"j", "a", "v", "a", "s", "c", "r", "i", "p", "t">>, <<"J", "a", "v", "a", "S", "c", "r", "i", "p", "t">>, <<"l", "a", "n", "g", "u", "a", "g", "e", "-", "j", "s">>}
    THEN "javascript" ELSE "typescript"

\* C12 (as claimed): a supported tag gives a wrapper of class
\* language-<canonical> around highlighted markup; every other tag, and no
\* tag, gives no language and an unclassed wrapper around escaped text.
CE_C12 ==
  (pc = "rendered" /\ ~rendered.highlighterThrew)
  => /\ infostring \in SupportedTags
          => /\ rendered.class = <<"language-", Canonical(infostring)>>
             /\ rendered.body = PrismHighlight(codeText, <<Canonical(infostring)>>)
     /\ infostring \notin SupportedTags
          => /\ NormalizeLanguage(infostring) = Null
             /\ rendered.class = <<>>
             /\ rendered.body = PlainText

(***************************************************************************)
(* The request handler of src/api/studio.js: `let conn = null` and the     *)
(* async function handlerWrapper (lines 13-26; lines 42-55 are the same    *)
(* but for returning the handler's promise instead of awaiting it).        *)
(* Invocations interleave at their awaits.                                 *)
(***************************************************************************)
MaxInvocations == 3

Invocations == 1..MaxInvocations

\* an invocation that has not arrived yet
NotStarted ==
  [pc |-> "idle", sawConn |-> "none", seen |-> {}, connect |-> "none",
   handlerCalled |-> FALSE, connAtCall |-> "none"]

\* the outcomes of the mongoose.connect calls settled so far
Settled == {calls[j].connect : j \in Invocations} \ {"none", "pending"}

\* mutant: connect on every invocation
ShouldConnectAlways(c) == TRUE

\* line 16: if (conn == null)
ShouldConnect(c) == c = "null"

\* line 22 / 51: handler.apply(null, [req, res])
CallHandler(call, c) ==
  [call EXCEPT !.pc = "handling", !.handlerCalled = TRUE, !.connAtCall = c]

\* lines 15-17: the invocation runs up to its first await
Start(i) ==
  /\ pc = "handler"
  /\ calls[i].pc = "idle"
  /\ LET call == [calls[i] EXCEPT !.sawConn = conn, !.seen = Settled]
     IN IF ShouldConnect(conn)
          THEN calls' = [calls EXCEPT ![i] = [call EXCEPT !.pc = "connecting",
                                                       !.connect = "pending"]]
          ELSE calls' = [calls EXCEPT ![i] = CallHandler(call, conn)]
  /\ UNCHANGED <<variant, layoutFile, changelogDir, docsDir, pc, trace, thrown,
                 exitCode, entries, writes, tplArgs, tplOut, codeVars, conn>>

\* lines 17-22: mongoose.connect resolves, conn is assigned, the handler is called
ConnectResolve(i) ==
  /\ pc = "handler"
  /\ calls[i].pc = "connecting"
  /\ conn' = "mongoose"
  /\ calls' = [calls EXCEPT ![i] =
                 CallHandler([calls[i] EXCEPT !.connect = "resolved"], "mongoose")]
  /\ UNCHANGED <<variant, layoutFile, changelogDir, docsDir, pc, trace, thrown,
                 exitCode, entries, writes, tplArgs, tplOut, codeVars>>

\* mutant: a rejected connect is ignored and the handler called all the same
ConnectRejectSwallowed(i) ==
  /\ pc = "handler"
  /\ calls[i].pc = "connecting"
  /\ calls' = [calls EXCEPT ![i] =
                 CallHandler([calls[i] EXCEPT !.connect = "rejected"], conn)]
  /\ UNCHANGED <<variant, layoutFile, changelogDir, docsDir, pc, trace, thrown,
                 exitCode, entries, writes, tplArgs, tplOut, codeVars, conn>>

\* line 17: mongoose.connect rejects; the await throws before the assignment
\* and the async function rejects
ConnectReject(i) ==
  /\ pc = "handler"
  /\ calls[i].pc = "connecting"
  /\ calls' = [calls EXCEPT ![i] = [calls[i] EXCEPT !.pc = "rejected",
                                                     !.connect = "rejected"]]
  /\ UNCHANGED <<variant, layoutFile, changelogDir, docsDir, pc, trace, thrown,
                 exitCode, entries, writes, tplArgs, tplOut, codeVars, conn>>

\* lines 22-26 / 51-55: the handler's promise fulfils
HandlerResolve(i) ==
  /\ pc = "handler"
  /\ calls[i].pc = "handling"
  /\ calls' = [calls EXCEPT ![i] = [calls[i] EXCEPT !.pc = "resolved"]]
  /\ UNCHANGED <<variant, layoutFile, changelogDir, docsDir, pc, trace, thrown,
                 exitCode, entries, writes, tplArgs, tplOut, codeVars, conn>>

\* lines 22-25 / 51-54: the handler's promise rejects; .catch logs and rethrows
HandlerReject(i) ==
  /\ pc = "handler"
  /\ calls[i].pc = "handling"
  /\ calls' = [calls EXCEPT ![i] = [calls[i] EXCEPT !.pc = "rejected"]]
  /\ UNCHANGED <<variant, layoutFile, changelogDir, docsDir, pc, trace, thrown,
                 exitCode, entries, writes, tplArgs, tplOut, codeVars, conn>>

InitHandler ==
  /\ variant = "main"
  /\ layoutFile = "ok"
  /\ changelogDir = NoDir
  /\ docsDir = NoDir
  /\ pc = "handler"
  /\ trace = <<>>
  /\ thrown = NoError
  /\ exitCode = -1
  /\ entries = <<>>
  /\ writes = <<>>
  /\ tplArgs = IdleArgs
  /\ tplOut = EmptyDocument
  /\ IdleCode
  /\ conn = "null"
  /\ calls = [i \in Invocations |-> NotStarted]

NextHandler ==
  \E i \in Invocations :
    \/ Start(i)
    \/ ConnectResolve(i)
    \/ ConnectReject(i)
    \/ HandlerResolve(i)
    \/ HandlerReject(i)

SpecHandler == InitHandler /\ [][NextHandler]_vars

\* the invocations that have begun, those that called mongoose.connect
Started == {i \in Invocations : calls[i].pc # "idle"}
Connectors == {i \in Started : calls[i].connect # "none"}

\* C13: an invocation calls mongoose.connect only if it found conn null when
\* it started; an invocation that started after some connect had resolved
\* finds conn set and does not call connect; so all the connect calls come
\* from invocations that started while conn was null.
T_C13 ==
  pc = "handler" =>
    \A i \in Started :
      /\ i \in Connectors => calls[i].sawConn = "null"
      /\ "resolved" \in calls[i].seen =>
           /\ calls[i].sawConn # "null"
           /\ i \notin Connectors
           /\ conn # "null"

\* two connections were opened by concurrent first invocations, and a later
\* invocation reused conn without connecting
W_C13 ==
  /\ pc = "handler"
  /\ \E i, j \in Connectors :
       /\ i # j
       /\ calls[i].connect = "resolved"
       /\ calls[j].connect = "resolved"
  /\ \E k \in Started \ Connectors :
       "resolved" \in calls[k].seen /\ calls[k].handlerCalled

\* C14: the handler is called only with conn set, by an invocation that
\* found it set or whose own connect resolved; an invocation whose connect
\* rejected has rejected without calling the handler; conn is set only by
\* a connect that resolved; an invocation starting while none has resolved
\* calls connect, whatever failed before.
T_C14 ==
  pc = "handler" =>
    /\ \A i \in Started :
         /\ calls[i].handlerCalled =>
              /\ calls[i].connAtCall = "mongoose"
              /\ calls[i].sawConn # "null" \/ calls[i].connect = "resolved"
         /\ calls[i].connect = "rejected" =>
              /\ calls[i].pc = "rejected"
              /\ ~calls[i].handlerCalled
         /\ "resolved" \notin calls[i].seen => i \in Connectors
    /\ conn # "null" <=> \E i \in Started : calls[i].connect = "resolved"

\* a connect rejected, conn is still null, and an invocation that started
\* after the failure called connect again
W_C14 ==
  /\ pc = "handler"
  /\ conn = "null"
  /\ \E i, j \in Connectors :
       /\ i # j
       /\ calls[i].connect = "rejected"
       /\ calls[i].pc = "rejected"
       /\ ~calls[i].handlerCalled
       /\ calls[j].seen = {"rejected"}

====
